---- MODULE Spec2Model ----
(***************************************************************************)
(* Order-time stock reservation and payment-gated order creation of the    *)
(* restaurant ordering backend: the MenuItem stock ledger, reservations,   *)
(* payment verification, the expired-reservation sweeps and the stale      *)
(* order cleanups.  Every action is one database statement or one          *)
(* transaction of the handler it models; a handler that reads a row and    *)
(* later writes it keeps what it read in its own process record.           *)
(***************************************************************************)
EXTENDS Integers, Sequences, FiniteSets, TLC

\* ---------------------------------------------------------------- bounds
MaxStock == 2
MaxQty == 2
NumCallers == 3
NumCreators == 2
MaxOrders == 3
MaxDailyOrders == 2600
MaxDay == 1
MaxHalfHour == 50

\* ------------------------------------------------------- program values
NULL == -1

Items == {"m1"}
Reservations == {1}
OrderIds == {1}
Verifiers == {1, 2}

ACTIVE == "ACTIVE"
PAID == "PAID"
EXPIRED == "EXPIRED"
CANCELLED == "CANCELLED"
NONE == "NONE"

VARIABLES
    menu,       \* MenuItem rows: stock_quantity, reserved_stock, is_available
    res,        \* OrderReservation rows
    cache,      \* upi_pending_<token> cache entries, one token per reservation
    orders,     \* Order rows of the cash path (with their OrderItems)
    paid,       \* per reservation, the Order rows materialized from it
    verify,     \* VerifyUPIPaymentView.post requests in flight
    sweepA,     \* orders/cleanup.py cleanup_expired_reservations in flight
    sweepB,     \* core/tasks.py cleanup_expired_reservations in flight
    released,   \* history: per reservation, release_stock calls made for it
    callers,    \* concurrent reserve_stock callers of the race scenario
    ord,        \* the Order row of the staff desk (apps/orders of Backend)
    audit,      \* CashAuditLog rows with action CASH_COLLECTED
    req,        \* staff requests in flight, each with the instance it loaded
    seq,        \* the DailyOrderSequence row of today and its row lock
    tx,         \* OrderCreateSerializer.create transactions in flight
    made,       \* daily_sequence of the orders created, and whether deleted
    bill,       \* the money of one cart on its way to an Order row
    num         \* order numbers of a restaurant's day: the sequence used,
                \* the first and the latest Order's number, the last call
    , mw         \* PendingCashOrderCleanupMiddleware of one process
    , led        \* one MenuItem row and a stock call applied to it, twice
    , cal        \* the DailyOrderSequence rows of one restaurant over time

\* the state of the staff desk and of order creation in Backend/apps/orders
legacyVars == <<ord, audit, req, seq, tx, made>>

\* the inputs and results of the computations checked on their own
calcVars == <<bill, num, mw, led, cal>>

vars == <<menu, res, cache, orders, paid, verify, sweepA, sweepB, released,
          callers, legacyVars, calcVars>>

\* ------------------------------------------------------------ MenuItem
\* a conditional UPDATE that compares the request with stock_quantity alone
reserve_updated_ignores_reserved(m, q) ==
    m.stock_quantity # NULL /\ m.stock_quantity >= q

\* a conditional UPDATE that wants a unit left over after the reservation
reserve_updated_strict(m, q) ==
    m.stock_quantity # NULL /\ m.stock_quantity > m.reserved_stock + q

\* MenuItem.reserve_stock: the conditional UPDATE matched a row
reserve_updated(m, q) ==
    m.stock_quantity # NULL /\ m.stock_quantity >= m.reserved_stock + q

\* MenuItem.reserve_stock return value
reserve_result(m, q) ==
    m.stock_quantity = NULL \/ reserve_updated(m, q)

\* MenuItem.reserve_stock effect on the row
reserve_stock(m, q) ==
    IF m.stock_quantity = NULL THEN m
    ELSE IF reserve_updated(m, q)
         THEN [m EXCEPT !.reserved_stock = @ + q]
         ELSE m

\* PositiveIntegerField: the database rejects a negative stock_quantity
confirm_raises(m, q) ==
    m.stock_quantity # NULL /\ m.stock_quantity - q < 0

\* a confirm_sale that deducts the sale but keeps the units reserved
confirm_sale_keeps_reserved(m, q) ==
    IF m.stock_quantity = NULL THEN m
    ELSE LET s == m.stock_quantity - q
         IN  IF s <= 0
             THEN [m EXCEPT !.stock_quantity = 0, !.is_available = FALSE]
             ELSE [m EXCEPT !.stock_quantity = s]

\* MenuItem.confirm_sale effect on the row
confirm_sale(m, q) ==
    IF m.stock_quantity = NULL THEN m
    ELSE LET s == m.stock_quantity - q
             r == IF m.reserved_stock >= q THEN m.reserved_stock - q ELSE 0
         IN  IF s <= 0
             THEN [stock_quantity |-> 0, reserved_stock |-> r,
                   is_available |-> FALSE]
             ELSE [stock_quantity |-> s, reserved_stock |-> r,
                   is_available |-> m.is_available]

\* MenuItem.release_stock effect on the row
release_stock(m, q) ==
    IF m.stock_quantity = NULL THEN m
    ELSE [m EXCEPT !.reserved_stock = IF @ >= q THEN @ - q ELSE 0]

\* MenuItem.restock effect on the row
restock(m, q, mark_available) ==
    IF m.stock_quantity = NULL
    THEN IF mark_available /\ ~m.is_available
         THEN [m EXCEPT !.stock_quantity = q, !.is_available = TRUE]
         ELSE m
    ELSE [m EXCEPT !.stock_quantity = @ + q,
                   !.is_available = IF mark_available THEN TRUE ELSE @]

\* ------------------------------------------------- lines of a cart
Carts ==
    {<<[menu_item_id |-> i, quantity |-> q]>> : i \in Items, q \in 1..MaxQty}

\* reserve every line of a cart in turn, inside one transaction
RECURSIVE ReserveAll(_, _)
ReserveAll(m, lines) ==
    IF lines = <<>> THEN m
    ELSE LET l == Head(lines)
         IN  ReserveAll([m EXCEPT ![l.menu_item_id] =
                            reserve_stock(@, l.quantity)], Tail(lines))

\* every line of the cart names an available item and its reserve succeeds
RECURSIVE ReserveAllOk(_, _)
ReserveAllOk(m, lines) ==
    IF lines = <<>> THEN TRUE
    ELSE LET l == Head(lines)
         IN  /\ m[l.menu_item_id].is_available
             /\ reserve_result(m[l.menu_item_id], l.quantity)
             /\ ReserveAllOk([m EXCEPT ![l.menu_item_id] =
                                 reserve_stock(@, l.quantity)], Tail(lines))

\* VerifyUPIPaymentView.post step 1: confirm_sale for every reserved line
RECURSIVE ConfirmAll(_, _)
ConfirmAll(m, lines) ==
    IF lines = <<>> THEN m
    ELSE LET l == Head(lines)
         IN  ConfirmAll([m EXCEPT ![l.menu_item_id] =
                            confirm_sale(@, l.quantity)], Tail(lines))

\* one of the confirm_sale updates of the transaction is rejected
RECURSIVE ConfirmAllRaises(_, _)
ConfirmAllRaises(m, lines) ==
    IF lines = <<>> THEN FALSE
    ELSE LET l == Head(lines)
         IN  \/ confirm_raises(m[l.menu_item_id], l.quantity)
             \/ ConfirmAllRaises([m EXCEPT ![l.menu_item_id] =
                                     confirm_sale(@, l.quantity)], Tail(lines))

\* release_stock for every line (the loops of the two reservation sweeps)
RECURSIVE ReleaseAll(_, _)
ReleaseAll(m, lines) ==
    IF lines = <<>> THEN m
    ELSE LET l == Head(lines)
         IN  ReleaseAll([m EXCEPT ![l.menu_item_id] =
                            release_stock(@, l.quantity)], Tail(lines))

\* restore_stock_on_delete applied to every OrderItem of a deleted order
RECURSIVE RestoreAll(_, _, _)
RestoreAll(m, lines, payment_status) ==
    IF lines = <<>> THEN m
    ELSE LET l == Head(lines)
         IN  RestoreAll([m EXCEPT ![l.menu_item_id] =
                            IF payment_status = "success"
                            THEN restock(@, l.quantity, TRUE)
                            ELSE release_stock(@, l.quantity)],
                        Tail(lines), payment_status)

\* the next reservation of the queryset a sweep iterates
MinOf(S) == CHOOSE x \in S : \A y \in S : x <= y

\* ---------------------------------------------------------------- Init
IdleSweep == [pc |-> "idle", todo |-> {}, line |-> 0]
IdleVerify == [pc |-> "idle", rid |-> 0, sig |-> "none"]
\* stock_quantity of a menu item: null (unlimited) or a positive count
Stocks == {NULL} \cup 1..MaxStock

\* staff members sending requests, and customers placing orders
Staff == {1, 2}
Creators == 1..NumCreators

\* no Order row on the staff desk yet
NoOrder ==
    [payment_method |-> "none", status |-> "none", payment_status |-> "none",
     payment_id |-> 0, completed_by |-> 0, cash_collected_by |-> 0]

IdleReq == [pc |-> "idle", op |-> "none", order |-> NoOrder, result |-> "none"]
IdleTx ==
    [pc |-> "idle", cart |-> <<>>, line |-> 0, got |-> 0,
     taken |-> [i \in Items |-> 0], item |-> "none"]

\* nothing on the staff desk, no DailyOrderSequence row, no order created
\* no totals computed yet
NoTotals == [subtotal |-> 0, tax |-> 0, total_amount |-> 0, items |-> <<>>]

\* no cart is being priced
NoBill ==
    [pc |-> "idle", path |-> "none", lines |-> <<>>, tax_rate |-> 0,
     rounding |-> "none", reserved |-> 0, order |-> NoTotals]

\* no order number: nothing generated yet
NoNumber == [letter |-> "none", number |-> 0]

\* the day starts: no sequence used, no order number issued
NoNum ==
    [last_sequence |-> 0, first |-> NoNumber, latest |-> NoNumber,
     arg |-> 1, out |-> NoNumber]

\* the request threads of one server process, and the UTC days it lives
Threads == {1, 2}
Days == 0..MaxDay

\* the process starts: _last_cleanup_utc_date = None, no cleanup run yet
NoMw ==
    [clock |-> 0, last |-> NULL, runs |-> [d \in Days |-> 0],
     th |-> [t \in Threads |-> [pc |-> "idle", today_utc |-> 0]]]

\* no row, no call
NoRow == [stock_quantity |-> NULL, reserved_stock |-> 0, is_available |-> TRUE]
NoCall == [row |-> NoRow, ret |-> "none"]
NoLed == [pc |-> "idle", op |-> "none", quantity |-> 0, row |-> NoRow,
          once |-> NoCall, twice |-> NoCall]

\* the clock in half hours since a UTC midnight, and the dates it gives
HalfHoursPerDay == 48
UtcDates == 0..(MaxHalfHour \div HalfHoursPerDay)

\* Restaurant.timezone as half hours ahead of UTC: UTC, Asia/Kolkata (the
\* default), America/New_York
TimezoneOffsets == {0, 11, -10}
LocalDates ==
    ((0 - 10) \div HalfHoursPerDay)..((MaxHalfHour + 11) \div HalfHoursPerDay)

\* no DailyOrderSequence row, no order yet
NoCal ==
    [now |-> 0, offset |-> 0, rows |-> [d \in UtcDates |-> 0],
     created |-> [d \in LocalDates |-> 0], local_day |-> 0,
     daily_sequence |-> 0]

\* nothing is being computed
InitCalc ==
    /\ bill = NoBill
    /\ num = NoNum
    /\ mw = NoMw
    /\ led = NoLed
    /\ cal = NoCal

InitLegacy ==
    /\ ord = NoOrder
    /\ audit = 0
    /\ req = [s \in Staff |-> IdleReq]
    /\ seq = [last_sequence |-> 0, lock |-> 0]
    /\ tx = [c \in Creators |-> IdleTx]
    /\ made = <<>>

NoReservation == [status |-> NONE, items |-> <<>>, overdue |-> FALSE]

InitRest ==
    /\ res = [r \in Reservations |-> NoReservation]
    /\ cache = [r \in Reservations |-> FALSE]
    /\ orders = <<>>
    /\ paid = [r \in Reservations |-> 0]
    /\ verify = [v \in Verifiers |-> IdleVerify]
    /\ sweepA = IdleSweep
    /\ sweepB = IdleSweep
    /\ released = [r \in Reservations |-> 0]
    /\ InitLegacy

Init ==
    /\ menu \in [Items -> {[stock_quantity |-> s, reserved_stock |-> 0,
                            is_available |-> TRUE] : s \in Stocks}]
    /\ InitRest
    /\ InitCalc
    /\ callers = <<>>

\* ------------------------------------------------ reservation creation
\* PublicReservationView.create: reserve every line, then insert the
\* reservation; a failing line fails the whole request
CreateReservation(r, cart) ==
    /\ res[r].status = NONE
    /\ \A r2 \in Reservations : r2 < r => res[r2].status # NONE
    /\ ReserveAllOk(menu, cart)
    /\ menu' = ReserveAll(menu, cart)
    /\ res' = [res EXCEPT ![r] = [status |-> ACTIVE, items |-> cart,
                                  overdue |-> FALSE]]
    /\ UNCHANGED <<cache, orders, paid, verify, sweepA, sweepB, released,
                   callers, legacyVars, calcVars>>

\* the clock passes expires_at of a reservation (reservations share one TTL,
\* so they become overdue in the order they were created)
Tick(r) ==
    /\ res[r].status # NONE
    /\ ~res[r].overdue
    /\ \A r2 \in Reservations : r2 < r => res[r2].overdue
    /\ res' = [res EXCEPT ![r].overdue = TRUE]
    /\ UNCHANGED <<menu, cache, orders, paid, verify, sweepA, sweepB,
                   released, callers, legacyVars, calcVars>>

\* the cached payment token times out (it was cached after the reservation
\* was created, with the same 15 minutes)
CacheTimeout(r) ==
    /\ cache[r]
    /\ res[r].overdue
    /\ cache' = [cache EXCEPT ![r] = FALSE]
    /\ UNCHANGED <<menu, res, orders, paid, verify, sweepA, sweepB, released,
                   callers, legacyVars, calcVars>>

\* InitiateUPIPaymentView.post on an ACTIVE reservation: past expires_at the
\* row is saved as EXPIRED, otherwise a payment token is cached
InitiatePayment(r) ==
    /\ res[r].status = ACTIVE
    /\ IF res[r].overdue
       THEN /\ res' = [res EXCEPT ![r].status = EXPIRED]
            /\ UNCHANGED cache
       ELSE /\ ~cache[r]
            /\ cache' = [cache EXCEPT ![r] = TRUE]
            /\ UNCHANGED res
    /\ UNCHANGED <<menu, orders, paid, verify, sweepA, sweepB, released,
                   callers, legacyVars, calcVars>>

\* ------------------------------------------------ payment verification
\* the view's idempotency check on the reservation it has just read
AlreadyProcessed(status) == status = PAID

\* the razorpay_signature of a request: the gateway's, or not
Signatures == {"signed", "forged"}

\* a verify_payment_signature that accepts every signature
verify_payment_signature_accepts_all(sig) == FALSE

\* RazorpayService.verify_payment_signature raises PaymentVerificationError
verify_payment_signature_raises(sig) == sig # "signed"

\* VerifyUPIPaymentView.post up to the idempotency check: how far a request
\* with the token of reservation r gets.  No cache entry: 400 'Session
\* expired.'; signature refused: 400 (except Exception); reservation read
\* as PAID: 200 'Already paid.'; otherwise on to the transaction
VerifyReadsAs(r, sig) ==
    IF ~cache[r] THEN "expired"
    ELSE IF verify_payment_signature_raises(sig) THEN "refused"
    ELSE IF AlreadyProcessed(res[r].status) THEN "already"
    ELSE "txn"

VerifyRead(v, r, sig) ==
    /\ verify[v].pc = "idle"
    /\ \A v2 \in Verifiers : verify[v2].pc = "idle" => v <= v2
    /\ res[r].status # NONE
    /\ verify' = [verify EXCEPT ![v] = [pc |-> VerifyReadsAs(r, sig),
                                        rid |-> r, sig |-> sig]]
    /\ UNCHANGED <<menu, res, cache, orders, paid, sweepA, sweepB, released,
                   callers, legacyVars, calcVars>>

\* VerifyUPIPaymentView.post: the transaction (confirm_sale per line, the
\* reservation saved as PAID, the Order created); a rejected update rolls
\* the transaction back and the view answers 400
VerifyCommit(v) ==
    LET r == verify[v].rid
        lines == res[r].items
    IN  /\ verify[v].pc = "txn"
        /\ IF ConfirmAllRaises(menu, lines)
           THEN /\ verify' = [verify EXCEPT ![v].pc = "failed"]
                /\ UNCHANGED <<menu, res, paid>>
           ELSE /\ verify' = [verify EXCEPT ![v].pc = "committed"]
                /\ menu' = ConfirmAll(menu, lines)
                /\ res' = [res EXCEPT ![r].status = PAID]
                /\ paid' = [paid EXCEPT ![r] = @ + 1]
        /\ UNCHANGED <<cache, orders, sweepA, sweepB, released, callers,
                       legacyVars, calcVars>>

\* VerifyUPIPaymentView.post: cache.delete(cache_key) after the transaction,
\* and the 201 answer
VerifyDone(v) ==
    /\ verify[v].pc = "committed"
    /\ cache' = [cache EXCEPT ![verify[v].rid] = FALSE]
    /\ verify' = [verify EXCEPT ![v] = IdleVerify]
    /\ UNCHANGED <<menu, res, orders, paid, sweepA, sweepB, released,
                   callers, legacyVars, calcVars>>

\* VerifyUPIPaymentView.post: an answer that changes nothing is sent (400
\* for a missing cache entry, a refused signature or a failed transaction,
\* 200 for a reservation already PAID)
VerifyAnswer(v) ==
    /\ verify[v].pc \in {"expired", "refused", "already", "failed"}
    /\ verify' = [verify EXCEPT ![v] = IdleVerify]
    /\ UNCHANGED <<menu, res, cache, orders, paid, sweepA, sweepB, released,
                   callers, legacyVars, calcVars>>

\* ------------------------------------------ expired-reservation sweeps
\* the queryset both sweeps iterate
ExpiredActive ==
    {r \in Reservations : res[r].status = ACTIVE /\ res[r].overdue}

\* orders/cleanup.py cleanup_expired_reservations: the query
SweepA_Query ==
    /\ sweepA.pc = "idle"
    /\ ExpiredActive # {}
    /\ sweepA' = [pc |-> "run", todo |-> ExpiredActive, line |-> 0]
    /\ UNCHANGED <<menu, res, cache, orders, paid, verify, sweepB, released,
                   callers, legacyVars, calcVars>>

\* orders/cleanup.py cleanup_expired_reservations: release_stock of one line
SweepA_Release ==
    LET r == MinOf(sweepA.todo)
        l == res[r].items[sweepA.line + 1]
    IN  /\ sweepA.pc = "run"
        /\ sweepA.line < Len(res[r].items)
        /\ menu' = [menu EXCEPT ![l.menu_item_id] =
                        release_stock(@, l.quantity)]
        /\ released' = [released EXCEPT ![r] = @ + 1]
        /\ sweepA' = [sweepA EXCEPT !.line = @ + 1]
        /\ UNCHANGED <<res, cache, orders, paid, verify, sweepB, callers,
                       legacyVars, calcVars>>

\* orders/cleanup.py cleanup_expired_reservations: res.save() of the row
SweepA_Save ==
    LET r == MinOf(sweepA.todo)
        rest == sweepA.todo \ {r}
    IN  /\ sweepA.pc = "run"
        /\ sweepA.line = Len(res[r].items)
        /\ res' = [res EXCEPT ![r].status = EXPIRED]
        /\ sweepA' = IF rest = {} THEN IdleSweep
                     ELSE [pc |-> "run", todo |-> rest, line |-> 0]
        /\ UNCHANGED <<menu, cache, orders, paid, verify, sweepB, released,
                       callers, legacyVars, calcVars>>

\* core/tasks.py cleanup_expired_reservations: the query
SweepB_Query ==
    /\ sweepB.pc = "idle"
    /\ ExpiredActive # {}
    /\ sweepB' = [pc |-> "run", todo |-> ExpiredActive, line |-> 0]
    /\ UNCHANGED <<menu, res, cache, orders, paid, verify, sweepA, released,
                   callers, legacyVars, calcVars>>

\* core/tasks.py cleanup_expired_reservations: the transaction of one
\* reservation (release every line, save the row as EXPIRED)
SweepB_Expire ==
    LET r == MinOf(sweepB.todo)
        rest == sweepB.todo \ {r}
    IN  /\ sweepB.pc = "run"
        /\ menu' = ReleaseAll(menu, res[r].items)
        /\ released' = [released EXCEPT ![r] = @ + Len(res[r].items)]
        /\ res' = [res EXCEPT ![r].status = EXPIRED]
        /\ sweepB' = IF rest = {} THEN IdleSweep
                     ELSE [pc |-> "run", todo |-> rest, line |-> 0]
        /\ UNCHANGED <<cache, orders, paid, verify, sweepA, callers,
                       legacyVars, calcVars>>

\* -------------------------------------------------------- cash orders
\* the Order row the cash path creates: pending and unpaid
CashOrder(cart) ==
    [payment_method |-> "cash", status |-> "pending",
     payment_status |-> "pending", items |-> cart,
     old30 |-> FALSE, old12 |-> FALSE, before_today |-> FALSE,
     delete_refused |-> FALSE]

\* PublicOrderCreateView.create, cash: the serializer reserves every line and
\* inserts the pending order
CreateCashOrder(k, cart) ==
    /\ k \notin DOMAIN orders
    /\ ReserveAllOk(menu, cart)
    /\ menu' = ReserveAll(menu, cart)
    /\ orders' = [j \in DOMAIN orders \cup {k} |->
                      IF j = k THEN CashOrder(cart) ELSE orders[j]]
    /\ UNCHANGED <<res, cache, paid, verify, sweepA, sweepB, released,
                   callers, legacyVars, calcVars>>

Live(k) == k \in DOMAIN orders

\* the Order row and its OrderItems are gone
Remove(os, k) == [j \in DOMAIN os \ {k} |-> os[j]]

\* the clock passes created_at + 30 minutes of an order
Age30(k) ==
    /\ Live(k)
    /\ ~orders[k].old30
    /\ orders' = [orders EXCEPT ![k].old30 = TRUE]
    /\ UNCHANGED <<menu, res, cache, paid, verify, sweepA, sweepB, released,
                   callers, legacyVars, calcVars>>

\* the clock passes created_at + 12 hours of an order
Age12(k) ==
    /\ Live(k)
    /\ orders[k].old30 /\ ~orders[k].old12
    /\ orders' = [orders EXCEPT ![k].old12 = TRUE]
    /\ UNCHANGED <<menu, res, cache, paid, verify, sweepA, sweepB, released,
                   callers, legacyVars, calcVars>>

\* midnight of the restaurant's timezone passes after the order was created
Midnight(k) ==
    /\ Live(k)
    /\ ~orders[k].before_today
    /\ orders' = [orders EXCEPT ![k].before_today = TRUE]
    /\ UNCHANGED <<menu, res, cache, paid, verify, sweepA, sweepB, released,
                   callers, legacyVars, calcVars>>

\* ------------------------------------------------- stale-order cleanups
\* orders/cleanup.py cleanup_stale_pending_cash_orders: the filter
StaleFilterS(o) ==
    /\ o.payment_method = "cash"
    /\ o.payment_status = "pending"
    /\ o.status = "pending"
    /\ o.before_today

\* core/tasks.py cleanup_stale_orders: the filter
StaleFilterT(o) ==
    /\ o.status = "pending"
    /\ o.payment_status = "pending"
    /\ o.old30

\* management command cleanup_stale_orders: the filter
StaleFilterC(o) ==
    /\ o.status = "pending"
    /\ o.payment_method = "cash"
    /\ o.old12

\* QuerySet.delete of one order: pre_delete of each OrderItem runs
\* restore_stock_on_delete, then the rows go
DeleteOrderMenu(m, o) == RestoreAll(m, o.items, o.payment_status)

\* core/tasks.py cleanup_stale_orders, lines 35-37: release_stock for each
\* OrderItem of the order
TaskRelease(m, o) == ReleaseAll(m, o.items)

\* cleanup_stale_pending_cash_orders: qs.delete() of a matching order.  The
\* rows a stale-order cleanup has read are changed by nothing but another
\* cleanup's delete, after which its own delete finds nothing, so each
\* cleanup is taken per order in one step.
StaleS_Delete(k) ==
    /\ Live(k)
    /\ StaleFilterS(orders[k])
    /\ menu' = DeleteOrderMenu(menu, orders[k])
    /\ orders' = Remove(orders, k)
    /\ UNCHANGED <<res, cache, paid, verify, sweepA, sweepB, released,
                   callers, legacyVars, calcVars>>

\* management command cleanup_stale_orders: stale_orders.delete()
StaleC_Delete(k) ==
    /\ Live(k)
    /\ StaleFilterC(orders[k])
    /\ menu' = DeleteOrderMenu(menu, orders[k])
    /\ orders' = Remove(orders, k)
    /\ UNCHANGED <<res, cache, paid, verify, sweepA, sweepB, released,
                   callers, legacyVars, calcVars>>

\* core/tasks.py cleanup_stale_orders: the transaction of one stale order,
\* the explicit release followed by Order.objects.filter(pk=...).delete()
StaleT_Delete(k) ==
    /\ Live(k)
    /\ StaleFilterT(orders[k])
    /\ menu' = DeleteOrderMenu(TaskRelease(menu, orders[k]), orders[k])
    /\ orders' = Remove(orders, k)
    /\ UNCHANGED <<res, cache, paid, verify, sweepA, sweepB, released,
                   callers, legacyVars, calcVars>>

\* an Order.delete that goes through to Model.delete
delete_raises_never(o) == FALSE

\* Order.delete: raise ValueError, whatever the order
delete_raises(o) == TRUE

\* order.delete() on an Order instance (DELETE /api/orders/<id>/ of the
\* ModelViewSet calls it): the ValueError leaves the rows in place
OrderDelete(k) ==
    /\ Live(k)
    /\ IF delete_raises(orders[k])
       THEN /\ orders' = [orders EXCEPT ![k].delete_refused = TRUE]
            /\ UNCHANGED menu
       ELSE /\ menu' = DeleteOrderMenu(menu, orders[k])
            /\ orders' = Remove(orders, k)
    /\ UNCHANGED <<res, cache, paid, verify, sweepA, sweepB, released,
                   callers, legacyVars, calcVars>>

\* ---------------------------------------------------------------- Spec
Next ==
    \/ \E r \in Reservations, cart \in Carts : CreateReservation(r, cart)
    \/ \E r \in Reservations : Tick(r)
    \/ \E r \in Reservations : CacheTimeout(r)
    \/ \E r \in Reservations : InitiatePayment(r)
    \/ \E v \in Verifiers, r \in Reservations, sig \in Signatures :
          VerifyRead(v, r, sig)
    \/ \E v \in Verifiers : VerifyCommit(v)
    \/ \E v \in Verifiers : VerifyDone(v)
    \/ \E v \in Verifiers : VerifyAnswer(v)
    \/ SweepA_Query
    \/ SweepA_Release
    \/ SweepA_Save
    \/ SweepB_Query
    \/ SweepB_Expire
    \/ \E k \in OrderIds, cart \in Carts : CreateCashOrder(k, cart)
    \/ \E k \in OrderIds : Age30(k)
    \/ \E k \in OrderIds : Age12(k)
    \/ \E k \in OrderIds : Midnight(k)
    \/ \E k \in OrderIds : StaleS_Delete(k)
    \/ \E k \in OrderIds : StaleC_Delete(k)
    \/ \E k \in OrderIds : StaleT_Delete(k)
    \/ \E k \in OrderIds : OrderDelete(k)

Spec == Init /\ [][Next]_vars

\* the sweeps keep being run: cleanup_expired_reservations is scheduled
\* every minute ("Time critical: Should run every minute"), so a sweep that
\* has something to do is eventually started and, once started, finishes
SweepsRun ==
    /\ WF_vars(SweepA_Query \/ SweepA_Release \/ SweepA_Save)
    /\ WF_vars(SweepB_Query \/ SweepB_Expire)

\* a verification request that was received is handled to its answer
RequestsFinish ==
    \A v \in Verifiers :
        WF_vars(VerifyCommit(v) \/ VerifyDone(v) \/ VerifyAnswer(v))

SpecLive == Init /\ [][Next]_vars /\ SweepsRun /\ RequestsFinish

\* ------------------------------------------- concurrent reserve_stock(1)
Callers == 1..NumCallers
RaceItem == "m1"
NotCalled == [pc |-> "start", stock_quantity |-> 0, result |-> "none"]

InitRace ==
    /\ menu \in [Items -> {[stock_quantity |-> s, reserved_stock |-> 0,
                            is_available |-> TRUE] : s \in Stocks}]
    /\ InitRest
    /\ InitCalc
    /\ callers = [c \in Callers |-> NotCalled]

\* the caller fetches its MenuItem instance
RaceLoad(c) ==
    /\ callers[c].pc = "start"
    /\ callers' = [callers EXCEPT ![c] =
                      [pc |-> "loaded",
                       stock_quantity |-> menu[RaceItem].stock_quantity,
                       result |-> "none"]]
    /\ UNCHANGED <<menu, res, cache, orders, paid, verify, sweepA, sweepB,
                   released, legacyVars, calcVars>>

\* reserve_stock(1): the None test on the instance, then the conditional
\* UPDATE against the row
RaceUpdate(c) ==
    /\ callers[c].pc = "loaded"
    /\ IF callers[c].stock_quantity = NULL
       THEN /\ callers' = [callers EXCEPT ![c].pc = "done", ![c].result = "ok"]
            /\ UNCHANGED menu
       ELSE /\ menu' = [menu EXCEPT ![RaceItem] = reserve_stock(@, 1)]
            /\ callers' = IF reserve_updated(menu[RaceItem], 1)
                          THEN [callers EXCEPT ![c].pc = "updated"]
                          ELSE [callers EXCEPT ![c].pc = "done",
                                               ![c].result = "fail"]
    /\ UNCHANGED <<res, cache, orders, paid, verify, sweepA, sweepB,
                   released, legacyVars, calcVars>>

\* reserve_stock(1): refresh_from_db and return True
RaceRefresh(c) ==
    /\ callers[c].pc = "updated"
    /\ callers' = [callers EXCEPT ![c] =
                      [pc |-> "done",
                       stock_quantity |-> menu[RaceItem].stock_quantity,
                       result |-> "ok"]]
    /\ UNCHANGED <<menu, res, cache, orders, paid, verify, sweepA, sweepB,
                   released, legacyVars, calcVars>>

NextRace ==
    \/ \E c \in Callers : RaceLoad(c)
    \/ \E c \in Callers : RaceUpdate(c)
    \/ \E c \in Callers : RaceRefresh(c)

SpecRace == InitRace /\ [][NextRace]_vars

\* ------------------------------------------- the staff desk (Backend)
\* everything but the staff desk
notDesk == <<menu, res, cache, orders, paid, verify, sweepA, sweepB, released,
             callers, seq, tx, made, calcVars>>

\* Order.ALLOWED_TRANSITIONS.get(status, [])
ALLOWED_TRANSITIONS(status) ==
    CASE status = "pending" -> {"preparing"}
      [] status = "preparing" -> {"completed"}
      [] OTHER -> {}

\* Order.can_transition_to
can_transition_to(o, new_status) == new_status \in ALLOWED_TRANSITIONS(o.status)

\* Model.save(update_fields=...): only the named fields of the instance are
\* written to the row
Save(row, o, update_fields) ==
    [f \in DOMAIN row |-> IF f \in update_fields THEN o[f] ELSE row[f]]

\* an Order.mark_as_preparing that does not look at the payment
mark_as_preparing_raises_unpaid_ok(o) == ~can_transition_to(o, "preparing")

\* Order.mark_as_preparing raises ValueError
mark_as_preparing_raises(o) ==
    \/ o.payment_status # "success"
    \/ ~can_transition_to(o, "preparing")

\* Order.mark_as_preparing: the row after the save
mark_as_preparing(row, o) ==
    Save(row, [o EXCEPT !.status = "preparing"], {"status"})

\* Order.mark_as_completed raises ValueError
mark_as_completed_raises(o) ==
    \/ o.payment_status # "success"
    \/ ~can_transition_to(o, "completed")

\* Order.mark_as_completed: the row after the save
mark_as_completed(row, o, user) ==
    Save(row, [o EXCEPT !.status = "completed", !.completed_by = user],
         {"status", "completed_by"})

\* an Order.collect_payment without its guards
collect_payment_raises_never(o) == FALSE

\* Order.collect_payment raises ValueError
collect_payment_raises(o) ==
    \/ o.payment_method # "cash"
    \/ o.payment_status = "success"
    \/ o.status # "pending"

\* Order.collect_payment: the row after the save
collect_payment(row, o, user) ==
    Save(row, [o EXCEPT !.payment_status = "success",
                        !.cash_collected_by = user,
                        !.status = "preparing"],
         {"payment_status", "status", "cash_collected_by"})

\* OrderStatusUpdateSerializer.validate raises ValidationError
StatusUpdateInvalid(o, new_status) ==
    \/ o.status = "completed"
    \/ ~can_transition_to(o, new_status)

\* the members of Order.Status, and the names update_status looks up in it
OrderStatusNames == {"PENDING", "PREPARING", "COMPLETED"}
StatusMappingNames == {"COMPLETED", "PENDING", "PREPARING", "READY", "CANCELLED"}

\* building status_mapping raises AttributeError
StatusMappingRaises == ~(StatusMappingNames \subseteq OrderStatusNames)

\* status_mapping[new_status_str]
StatusOf(name) ==
    CASE name = "PENDING" -> "pending"
      [] name = "PREPARING" -> "preparing"
      [] name = "COMPLETED" -> "completed"

\* OrderViewSet.complete and the COMPLETED branch of update_status answer
\* with an error
CompleteRefused(o) ==
    \/ o.payment_status # "success"
    \/ o.status = "completed"
    \/ ~can_transition_to(o, "completed")

\* OrderViewSet.collect_payment answers NOT_CASH_ORDER or ALREADY_COLLECTED
CollectViewRefused(o) ==
    \/ o.payment_method # "CASH"
    \/ o.payment_status = "SUCCESS"

\* what staff can ask for: the serializers' operations and the endpoints
Ops == {"mark_as_preparing", "mark_as_completed", "collect_payment",
        "cash", "complete", "update_status_PREPARING",
        "update_status_COMPLETED"}

\* the outcome of a request on the instance o it loaded: the result, the row
\* afterwards and whether a CashAuditLog row is written
Outcome(op, row, o, user) ==
    LET refuse(result) == [result |-> result, row |-> row, log |-> 0]
        done(newrow, n) == [result |-> "ok", row |-> newrow, log |-> n]
    IN  CASE op = "mark_as_preparing" ->
               IF StatusUpdateInvalid(o, "preparing")
                  \/ mark_as_preparing_raises(o)
               THEN refuse("rejected")
               ELSE done(mark_as_preparing(row, o), 0)
          [] op = "mark_as_completed" ->
               IF StatusUpdateInvalid(o, "completed")
                  \/ mark_as_completed_raises(o)
               THEN refuse("rejected")
               ELSE done(mark_as_completed(row, o, user), 0)
          [] op = "collect_payment" ->
               IF collect_payment_raises(o)
               THEN refuse("rejected")
               ELSE done(collect_payment(row, o, user), 1)
          [] op = "cash" ->
               IF CollectViewRefused(o) \/ collect_payment_raises(o)
               THEN refuse("rejected")
               ELSE done(collect_payment(row, o, user), 1)
          [] op = "complete" ->
               IF CompleteRefused(o) \/ mark_as_completed_raises(o)
               THEN refuse("rejected")
               ELSE done(mark_as_completed(row, o, user), 0)
          [] op = "update_status_COMPLETED" ->
               IF StatusMappingRaises THEN refuse("error")
               ELSE IF CompleteRefused(o) \/ mark_as_completed_raises(o)
               THEN refuse("rejected")
               ELSE done(mark_as_completed(row, o, user), 0)
          [] op = "update_status_PREPARING" ->
               IF StatusMappingRaises THEN refuse("error")
               ELSE IF ~can_transition_to(o, StatusOf("PREPARING"))
               THEN refuse("rejected")
               ELSE done(Save(row, [o EXCEPT !.status = StatusOf("PREPARING")],
                              {"status"}), 0)

\* OrderCreateSerializer / StaffOrderCreateSerializer: a cash order starts
\* pending and unpaid
DeskCreateCash ==
    /\ ord = NoOrder
    /\ ord' = [NoOrder EXCEPT !.payment_method = "cash", !.status = "pending",
                              !.payment_status = "pending"]
    /\ UNCHANGED <<audit, req, notDesk>>

\* VerifyUPIPaymentView.post of Backend: the UPI order is created paid
DeskCreateUpi(pid) ==
    /\ ord = NoOrder
    /\ ord' = [NoOrder EXCEPT !.payment_method = "upi", !.status = "preparing",
                              !.payment_status = "success", !.payment_id = pid]
    /\ UNCHANGED <<audit, req, notDesk>>

\* a request arrives: get_object() loads the Order instance
DeskLoad(s, op) ==
    /\ ord # NoOrder
    /\ req[s].pc # "loaded"
    /\ req' = [req EXCEPT ![s] = [pc |-> "loaded", op |-> op, order |-> ord,
                                  result |-> "none"]]
    /\ UNCHANGED <<ord, audit, notDesk>>

\* the request runs on the instance it loaded
DeskRun(s) ==
    LET out == Outcome(req[s].op, ord, req[s].order, s)
    IN  /\ req[s].pc = "loaded"
        /\ ord' = out.row
        /\ audit' = audit + out.log
        /\ req' = [req EXCEPT ![s] = [pc |-> "done", op |-> req[s].op,
                                      order |-> NoOrder,
                                      result |-> out.result]]
        /\ UNCHANGED notDesk

\* process_order_payment: the signature is accepted
payment_verified(row, pid) ==
    [row EXCEPT !.payment_id = pid,
                !.payment_status = "success",
                !.status = IF row.status \in {"pending", "PENDING",
                                              "AWAITING_PAYMENT"}
                           THEN "preparing" ELSE @]

\* process_order_payment: PaymentVerificationError
payment_refused(row) ==
    [row EXCEPT !.payment_status = "failed", !.status = "failed"]

\* VerifyPaymentView.post (legacy): process_order_payment on a UPI order
LegacyVerify(valid, pid) ==
    /\ ord # NoOrder
    /\ ord.payment_method = "upi"
    /\ ord' = IF valid THEN payment_verified(ord, pid) ELSE payment_refused(ord)
    /\ UNCHANGED <<audit, req, notDesk>>

\* RazorpayWebhookView._handle_payment_captured of Backend
WebhookCaptured(pid) ==
    /\ ord # NoOrder
    /\ ord.payment_method = "upi"
    /\ ord.payment_status # "success"
    /\ ord' = [ord EXCEPT !.payment_id = pid,
                          !.payment_status = "success",
                          !.status = IF @ = "pending" THEN "preparing" ELSE @]
    /\ UNCHANGED <<audit, req, notDesk>>

PaymentIds == {1, 2}

NextDesk ==
    \/ DeskCreateCash
    \/ \E pid \in PaymentIds : DeskCreateUpi(pid)
    \/ \E s \in Staff, op \in Ops : DeskLoad(s, op)
    \/ \E s \in Staff : DeskRun(s)
    \/ \E valid \in BOOLEAN, pid \in PaymentIds : LegacyVerify(valid, pid)
    \/ \E pid \in PaymentIds : WebhookCaptured(pid)

\* the staff desk starts with no order; the menu plays no part in it
InitDesk ==
    /\ menu = [i \in Items |-> [stock_quantity |-> NULL, reserved_stock |-> 0,
                                 is_available |-> TRUE]]
    /\ InitRest
    /\ InitCalc
    /\ callers = <<>>

SpecDesk == InitDesk /\ [][NextDesk]_vars

\* --------------------------------- order creation and daily sequence
\* everything but order creation
notCreate == <<res, cache, orders, paid, verify, sweepA, sweepB, released,
               callers, ord, audit, req, calcVars>>

\* an id that no active MenuItem of the restaurant has
MissingItem == "m0"

\* the carts customers send: one or two lines
Lines ==
    {[menu_item_id |-> i, quantity |-> q] :
        i \in Items \cup {MissingItem}, q \in 1..MaxQty}
CreateCarts == {<<l>> : l \in Lines} \cup {<<l1, l2>> : l1 \in Lines, l2 \in Lines}

\* a get_next_sequence that reads the row without waiting for its lock
SeqBlockedNever(c) == FALSE

\* DailyOrderSequence.get_next_sequence: select_for_update waits while
\* another transaction holds the row
SeqBlocked(c) == seq.lock \notin {0, c}

\* DailyOrderSequence.get_next_sequence: seq.last_sequence += 1, returned
get_next_sequence == seq.last_sequence + 1

\* the menu items filter and the stock check of one line fail
LineFails(m, taken, l) ==
    \/ l.menu_item_id \notin DOMAIN m
    \/ ~m[l.menu_item_id].is_available
    \/ /\ m[l.menu_item_id].stock_quantity # NULL
       /\ m[l.menu_item_id].stock_quantity - taken[l.menu_item_id] < l.quantity

\* menu_item.stock_quantity -= quantity, in the transaction
TakeLine(m, taken, l) ==
    IF m[l.menu_item_id].stock_quantity = NULL THEN taken
    ELSE [taken EXCEPT ![l.menu_item_id] = @ + l.quantity]

\* a rollback that keeps the decrements of the lines already handled
RolledBackPartly(m, taken) ==
    [i \in Items |-> IF m[i].stock_quantity = NULL THEN m[i]
                     ELSE [m[i] EXCEPT !.stock_quantity = @ - taken[i]]]

\* transaction.atomic exits with an exception: the rows are as before
RolledBack(m, taken) == m

\* transaction.atomic exits normally: the decrements are committed
Committed(m, taken) ==
    [i \in Items |-> IF m[i].stock_quantity = NULL THEN m[i]
                     ELSE [m[i] EXCEPT !.stock_quantity = @ - taken[i]]]

\* the row lock goes with the transaction
Unlock(c) == IF seq.lock = c THEN 0 ELSE seq.lock

InitCreate ==
    /\ menu \in [Items -> {[stock_quantity |-> s, reserved_stock |-> 0,
                            is_available |-> a] : s \in Stocks,
                                                  a \in BOOLEAN}]
    /\ InitRest
    /\ InitCalc
    /\ callers = <<>>

\* OrderCreateSerializer.create: the transaction opens and takes the next
\* sequence number
CreateBegin(c, cart) ==
    /\ tx[c].pc # "open"
    /\ Len(made) < MaxOrders
    /\ ~SeqBlocked(c)
    /\ seq' = [seq EXCEPT !.lock = c]
    /\ tx' = [tx EXCEPT ![c] = [IdleTx EXCEPT !.pc = "open", !.cart = cart,
                                              !.got = get_next_sequence]]
    /\ UNCHANGED <<menu, made, notCreate>>

\* OrderCreateSerializer.create: one line of the cart; a failing line raises
\* ValidationError naming the item, and the transaction rolls back
CreateLine(c) ==
    LET l == tx[c].cart[tx[c].line + 1]
    IN  /\ tx[c].pc = "open"
        /\ tx[c].line < Len(tx[c].cart)
        /\ IF LineFails(menu, tx[c].taken, l)
           THEN /\ tx' = [tx EXCEPT ![c] = [IdleTx EXCEPT
                                               !.pc = "failed",
                                               !.line = tx[c].line,
                                               !.item = l.menu_item_id]]
                /\ menu' = RolledBack(menu, tx[c].taken)
                /\ seq' = [seq EXCEPT !.lock = Unlock(c)]
           ELSE /\ tx' = [tx EXCEPT ![c].taken = TakeLine(menu, @, l),
                                    ![c].line = @ + 1]
                /\ UNCHANGED <<menu, seq>>
        /\ UNCHANGED <<made, notCreate>>

\* OrderCreateSerializer.create: Order and OrderItems inserted, commit
CreateCommit(c) ==
    /\ tx[c].pc = "open"
    /\ tx[c].line = Len(tx[c].cart)
    /\ menu' = Committed(menu, tx[c].taken)
    /\ seq' = [last_sequence |-> tx[c].got, lock |-> Unlock(c)]
    /\ made' = Append(made, [daily_sequence |-> tx[c].got, deleted |-> FALSE])
    /\ tx' = [tx EXCEPT ![c] = [IdleTx EXCEPT !.pc = "created"]]
    /\ UNCHANGED notCreate

\* the request dies inside the transaction (connection lost, worker killed)
CreateAbort(c) ==
    /\ tx[c].pc = "open"
    /\ tx' = [tx EXCEPT ![c] = [IdleTx EXCEPT !.pc = "aborted"]]
    /\ menu' = RolledBack(menu, tx[c].taken)
    /\ seq' = [seq EXCEPT !.lock = Unlock(c)]
    /\ UNCHANGED <<made, notCreate>>

\* cleanup_stale_pending_cash_orders of Backend deletes an order
OrderDeleted(k) ==
    /\ k \in DOMAIN made
    /\ ~made[k].deleted
    /\ made' = [made EXCEPT ![k].deleted = TRUE]
    /\ UNCHANGED <<menu, seq, tx, notCreate>>

NextCreate ==
    \/ \E c \in Creators, cart \in CreateCarts : CreateBegin(c, cart)
    \/ \E c \in Creators : CreateLine(c)
    \/ \E c \in Creators : CreateCommit(c)
    \/ \E c \in Creators : CreateAbort(c)
    \/ \E k \in 1..MaxOrders : OrderDeleted(k)

SpecCreate == InitCreate /\ [][NextCreate]_vars

\* ------------------------------------------------- the money of an order
\* everything but the cart being priced
notBill == <<menu, res, cache, orders, paid, verify, sweepA, sweepB, released,
             callers, legacyVars, num, mw, led, cal>>

\* prices in hundredths (MenuItem.price has two decimal places) and
\* Restaurant.tax_rate in ten-thousandths (four decimal places, default 0.08)
Prices == {105, 200}
TaxRates == {0, 800, 1000}

\* how a DecimalField value is brought to two decimal places when it is
\* stored: quantize with ROUND_HALF_EVEN (sqlite3 backend) or the database's
\* own numeric rounding, half away from zero (postgresql backend)
Roundings == {"ROUND_HALF_EVEN", "ROUND_HALF_UP"}

\* n / d brought to a whole number of hundredths, n >= 0
Quantize(rounding, n, d) ==
    LET q == n \div d
        r == n % d
    IN  IF 2 * r < d THEN q
        ELSE IF 2 * r > d THEN q + 1
        ELSE IF rounding = "ROUND_HALF_EVEN" /\ q % 2 = 0 THEN q
        ELSE q + 1

\* the carts that are priced: one or two lines
PricedLines == {[price |-> p, quantity |-> q] : p \in Prices, q \in 1..MaxQty}
PricedCarts ==
    {<<l>> : l \in PricedLines}
        \cup {<<l1, l2>> : l1 \in PricedLines, l2 \in PricedLines}

\* OrderItem.save: subtotal = price_at_order * quantity
ItemSubtotals(lines) ==
    [k \in DOMAIN lines |-> lines[k].price * lines[k].quantity]

\* subtotal += item_subtotal over the lines
RECURSIVE SumSeq(_)
SumSeq(s) == IF s = <<>> THEN 0 ELSE Head(s) + SumSeq(Tail(s))

\* OrderCreateSerializer.create: subtotal, tax = subtotal * tax_rate and
\* total_amount = subtotal + tax, each stored with two decimal places
CashTotals(lines, rate, rounding) ==
    LET subtotal == SumSeq(ItemSubtotals(lines))
    IN  [subtotal |-> subtotal,
         tax |-> Quantize(rounding, subtotal * rate, 10000),
         total_amount |-> Quantize(rounding, subtotal * 10000 + subtotal * rate,
                                   10000),
         items |-> ItemSubtotals(lines)]

\* the reservation's total_amount: what the customer pays, subtotal and tax
ReservationTotal(lines, rate, rounding) ==
    CashTotals(lines, rate, rounding).total_amount

\* VerifyUPIPaymentView.post: Order.objects.create with
\* subtotal = reservation.total_amount, tax = 0.00 and
\* total_amount = reservation.total_amount, and one OrderItem per line
MaterializedTotals(lines, reserved) ==
    [subtotal |-> reserved, tax |-> 0, total_amount |-> reserved,
     items |-> ItemSubtotals(lines)]

\* a cart arrives for a restaurant with some tax rate, on some database
InitBill ==
    /\ menu = [i \in Items |-> [stock_quantity |-> NULL, reserved_stock |-> 0,
                                 is_available |-> TRUE]]
    /\ InitRest
    /\ callers = <<>>
    /\ num = NoNum
    /\ mw = NoMw
    /\ led = NoLed
    /\ cal = NoCal
    /\ bill \in {[NoBill EXCEPT !.pc = "cart", !.path = path, !.lines = lines,
                                !.tax_rate = rate, !.rounding = rounding] :
                    path \in {"cash", "upi"}, lines \in PricedCarts,
                    rate \in TaxRates, rounding \in Roundings}

\* OrderCreateSerializer.create: the cash order is created with its totals
BillCashOrder ==
    /\ bill.pc = "cart"
    /\ bill.path = "cash"
    /\ bill' = [bill EXCEPT
                   !.pc = "order",
                   !.order = CashTotals(bill.lines, bill.tax_rate,
                                        bill.rounding)]
    /\ UNCHANGED notBill

\* PublicReservationView.create: the reservation stores its total_amount
BillReserve ==
    /\ bill.pc = "cart"
    /\ bill.path = "upi"
    /\ bill' = [bill EXCEPT
                   !.pc = "reserved",
                   !.reserved = ReservationTotal(bill.lines, bill.tax_rate,
                                                 bill.rounding)]
    /\ UNCHANGED notBill

\* VerifyUPIPaymentView.post: the Order is created from the reservation
BillMaterialize ==
    /\ bill.pc = "reserved"
    /\ bill' = [bill EXCEPT
                   !.pc = "order",
                   !.order = MaterializedTotals(bill.lines, bill.reserved)]
    /\ UNCHANGED notBill

NextBill ==
    \/ BillCashOrder
    \/ BillReserve
    \/ BillMaterialize

SpecBill == InitBill /\ [][NextBill]_vars

\* --------------------------------------------------- order numbers
\* everything but the order numbers
notNum == <<menu, res, cache, orders, paid, verify, sweepA, sweepB, released,
            callers, legacyVars, bill, mw, led, cal>>

\* chr(ord('A') + letter_index)
Letters ==
    <<"A", "B", "C", "D", "E", "F", "G", "H", "I", "J", "K", "L", "M",
      "N", "O", "P", "Q", "R", "S", "T", "U", "V", "W", "X", "Y", "Z">>

\* a letter that covers 100 orders
letter_index_hundred(daily_sequence) == ((daily_sequence - 1) \div 100) % 26

\* generate_order_number: letter_index, wrapped past Z
letter_index(daily_sequence) ==
    LET i == (daily_sequence - 1) \div 99
    IN  IF i >= 26 THEN i % 26 ELSE i

\* generate_order_number raises ValueError
ValueError == [letter |-> "ValueError", number |-> 0]

\* generate_order_number: f"{letter}{number}", kept as its two parts
generate_order_number(daily_sequence) ==
    IF daily_sequence < 1 THEN ValueError
    ELSE [letter |-> Letters[letter_index(daily_sequence) + 1],
          number |-> ((daily_sequence - 1) % 99) + 1]

InitNum ==
    /\ menu = [i \in Items |-> [stock_quantity |-> NULL, reserved_stock |-> 0,
                                 is_available |-> TRUE]]
    /\ InitRest
    /\ callers = <<>>
    /\ InitCalc

\* an order is created: get_next_sequence, then generate_order_number
NumIssue ==
    LET daily_sequence == num.last_sequence + 1
    IN  /\ daily_sequence <= MaxDailyOrders
        /\ num' = [last_sequence |-> daily_sequence,
                   first |-> IF daily_sequence = 1
                             THEN generate_order_number(daily_sequence)
                             ELSE num.first,
                   latest |-> generate_order_number(daily_sequence),
                   arg |-> daily_sequence,
                   out |-> generate_order_number(daily_sequence)]
        /\ UNCHANGED notNum

\* generate_order_number is called with something that is no sequence number
NumBad(daily_sequence) ==
    /\ num' = [num EXCEPT !.arg = daily_sequence,
                          !.out = generate_order_number(daily_sequence)]
    /\ UNCHANGED notNum

NextNum ==
    \/ NumIssue
    \/ \E daily_sequence \in {-1, 0} : NumBad(daily_sequence)

SpecNum == InitNum /\ [][NextNum]_vars

\* ------------------------------------------- the cleanup middleware
\* everything but the middleware
notMw == <<menu, res, cache, orders, paid, verify, sweepA, sweepB, released,
           callers, legacyVars, bill, num, led, cal>>

\* _maybe_cleanup: today_utc = timezone.now().date(), read before the lock
\* is taken
MwRequest(t) ==
    /\ mw.th[t].pc = "idle"
    /\ mw' = [mw EXCEPT !.th[t] = [pc |-> "read", today_utc |-> mw.clock]]
    /\ UNCHANGED notMw

\* _maybe_cleanup: the block under _lock; nothing if the date recorded is
\* the date this request read, else the cleanup is run (today, by the clock)
\* and the date this request read is recorded
MwLocked(t) ==
    /\ mw.th[t].pc = "read"
    /\ IF mw.last = mw.th[t].today_utc
       THEN mw' = [mw EXCEPT !.th[t].pc = "idle"]
       ELSE mw' = [mw EXCEPT !.th[t].pc = "idle",
                             !.runs[mw.clock] = @ + 1,
                             !.last = mw.th[t].today_utc]
    /\ UNCHANGED notMw

\* midnight UTC passes
MwMidnight ==
    /\ mw.clock < MaxDay
    /\ mw' = [mw EXCEPT !.clock = @ + 1]
    /\ UNCHANGED notMw

NextMw ==
    \/ \E t \in Threads : MwRequest(t)
    \/ \E t \in Threads : MwLocked(t)
    \/ MwMidnight

InitMw ==
    /\ menu = [i \in Items |-> [stock_quantity |-> NULL, reserved_stock |-> 0,
                                 is_available |-> TRUE]]
    /\ InitRest
    /\ callers = <<>>
    /\ InitCalc

SpecMw == InitMw /\ [][NextMw]_vars

\* ------------------------------------------------ the stock calls alone
\* everything but the row under test
notLed == <<menu, res, cache, orders, paid, verify, sweepA, sweepB, released,
            callers, legacyVars, bill, num, mw, cal>>

StockCalls == {"reserve_stock", "confirm_sale", "release_stock"}

\* restore_stock_on_delete for an OrderItem of a paid and of an unpaid order
SignalCalls == {"restore_stock_on_delete_success",
                "restore_stock_on_delete_pending"}

\* the MenuItem rows a call can meet: untracked stock, or a finite stock of
\* which no more than all is reserved
LedgerRows ==
    {[stock_quantity |-> NULL, reserved_stock |-> 0, is_available |-> a] :
        a \in BOOLEAN}
    \cup
    {row \in [stock_quantity : 0..MaxStock, reserved_stock : 0..MaxStock,
              is_available : BOOLEAN] :
        row.reserved_stock <= row.stock_quantity}

\* one call on the row m: the row it leaves and what it returns
StockCall(op, m, q) ==
    CASE op = "reserve_stock" ->
           [row |-> reserve_stock(m, q),
            ret |-> IF reserve_result(m, q) THEN "True" ELSE "False"]
      [] op = "confirm_sale" ->
           IF confirm_raises(m, q)
           THEN [row |-> m, ret |-> "IntegrityError"]
           ELSE [row |-> confirm_sale(m, q), ret |-> "True"]
      [] op = "release_stock" ->
           [row |-> release_stock(m, q), ret |-> "None"]
      [] op = "restore_stock_on_delete_success" ->
           [row |-> restock(m, q, TRUE), ret |-> "signal"]
      [] op = "restore_stock_on_delete_pending" ->
           [row |-> release_stock(m, q), ret |-> "signal"]

InitLedger ==
    /\ menu = [i \in Items |-> [stock_quantity |-> NULL, reserved_stock |-> 0,
                                 is_available |-> TRUE]]
    /\ InitRest
    /\ callers = <<>>
    /\ bill = NoBill
    /\ num = NoNum
    /\ mw = NoMw
    /\ cal = NoCal
    /\ led \in {[NoLed EXCEPT !.pc = "row", !.op = op, !.quantity = q,
                              !.row = m] :
                    op \in StockCalls \cup SignalCalls, q \in 1..MaxQty,
                    m \in LedgerRows}

\* the call is made
LedgerCall ==
    /\ led.pc = "row"
    /\ led' = [led EXCEPT !.pc = "once",
                          !.once = StockCall(led.op, led.row, led.quantity)]
    /\ UNCHANGED notLed

\* the caller makes the same call again
LedgerRetry ==
    /\ led.pc = "once"
    /\ led' = [led EXCEPT !.pc = "twice",
                          !.twice = StockCall(led.op, led.once.row,
                                              led.quantity)]
    /\ UNCHANGED notLed

NextLedger ==
    \/ LedgerCall
    \/ LedgerRetry

SpecLedger == InitLedger /\ [][NextLedger]_vars

\* ------------------------------------------- the day of the sequence row
\* everything but the sequence rows over time
notCal == <<menu, res, cache, orders, paid, verify, sweepA, sweepB, released,
            callers, legacyVars, bill, num, mw, led>>

\* timezone.now().date(): the date of the aware UTC datetime
today(now) == now \div HalfHoursPerDay

\* the calendar day at the restaurant
local_date(now, offset) == (now + offset) \div HalfHoursPerDay

InitCal ==
    /\ menu = [i \in Items |-> [stock_quantity |-> NULL, reserved_stock |-> 0,
                                 is_available |-> TRUE]]
    /\ InitRest
    /\ callers = <<>>
    /\ bill = NoBill
    /\ num = NoNum
    /\ mw = NoMw
    /\ led = NoLed
    /\ cal \in {[NoCal EXCEPT !.offset = off] : off \in TimezoneOffsets}

\* half an hour passes
CalTick ==
    /\ cal.now < MaxHalfHour
    /\ cal' = [cal EXCEPT !.now = @ + 1]
    /\ UNCHANGED notCal

\* DailyOrderSequence.get_next_sequence for an order created now:
\* get_or_create on (restaurant, today), last_sequence += 1
CalNextSequence ==
    LET date == today(cal.now)
        day == local_date(cal.now, cal.offset)
        issued == SumSeq([k \in 1..Cardinality(UtcDates) |-> cal.rows[k - 1]])
    IN  /\ issued < MaxOrders
        /\ cal' = [cal EXCEPT !.rows[date] = @ + 1,
                              !.created[day] = @ + 1,
                              !.local_day = day,
                              !.daily_sequence = cal.rows[date] + 1]
        /\ UNCHANGED notCal

NextCal ==
    \/ CalTick
    \/ CalNextSequence

SpecCal == InitCal /\ [][NextCal]_vars

\* =============================================================== claims
Finite(i) == menu[i].stock_quantity # NULL

\* quantity of item i in the lines of a cart
RECURSIVE QtyOf(_, _)
QtyOf(lines, i) ==
    IF lines = <<>> THEN 0
    ELSE (IF Head(lines).menu_item_id = i THEN Head(lines).quantity ELSE 0)
         + QtyOf(Tail(lines), i)

RECURSIVE SumOver(_, _)
SumOver(f, S) ==
    IF S = {} THEN 0
    ELSE LET x == CHOOSE y \in S : TRUE IN f[x] + SumOver(f, S \ {x})

\* units of item i held by ACTIVE reservations and by unpaid pending orders
Holds(i) ==
    SumOver([r \in Reservations |->
                IF res[r].status = ACTIVE THEN QtyOf(res[r].items, i) ELSE 0],
            Reservations)
    + SumOver([k \in DOMAIN orders |->
                IF orders[k].payment_status = "pending"
                THEN QtyOf(orders[k].items, i) ELSE 0],
              DOMAIN orders)

\* C1: for every finite-stock item, 0 <= reserved_stock <= stock_quantity in
\* every reachable state of the interleaved handlers and sweeps.
C1_ReservedWithinStock ==
    \A i \in Items :
        Finite(i) => /\ 0 <= menu[i].reserved_stock
                     /\ menu[i].reserved_stock <= menu[i].stock_quantity

\* a sale was confirmed while another holder keeps the rest of the stock
\* reserved
C1_Witness ==
    \E i \in Items, r \in Reservations :
        /\ paid[r] > 0
        /\ menu[i].stock_quantity > 0
        /\ menu[i].reserved_stock = menu[i].stock_quantity

RaceDone == \A c \in Callers : callers[c].pc = "done"
RaceOk == {c \in Callers : callers[c].result = "ok"}
RaceFail == {c \in Callers : callers[c].result = "fail"}

\* C2: with stock_quantity = 1 and reserved_stock = 0, once all N concurrent
\* reserve_stock(1) calls have returned exactly one returned success, the
\* other N-1 returned failure, and reserved_stock is 1; no more than one
\* ever succeeds on the way.
C2_OneReserveWins ==
    menu[RaceItem].stock_quantity = 1 =>
        /\ Cardinality(RaceOk) <= 1
        /\ menu[RaceItem].reserved_stock <= 1
        /\ RaceDone => /\ Cardinality(RaceOk) = 1
                       /\ Cardinality(RaceFail) = NumCallers - 1
                       /\ menu[RaceItem].reserved_stock = 1

\* all callers returned, one of them with success, from stock 1
C2_Witness ==
    /\ menu[RaceItem].stock_quantity = 1
    /\ RaceDone
    /\ RaceOk # {}
    /\ RaceFail # {}

\* C3: verifying payment twice for one reservation, in sequence or
\* overlapping, produces exactly one Order (and one confirm_sale per line).
C3_OneOrderPerReservation ==
    \A r \in Reservations : paid[r] <= 1

Terminal == {PAID, EXPIRED, CANCELLED}

\* C4: once a reservation is PAID, EXPIRED or CANCELLED no step changes its
\* status again.
C4_TerminalImmutable ==
    [][\A r \in Reservations :
          res[r].status \in Terminal => res'[r].status = res[r].status]_vars

\* C5: of expiry and payment verification of one reservation exactly one
\* takes effect: its lines are never both released by a sweep and confirmed
\* into an Order.
C5_OneWinner ==
    \A r \in Reservations : ~(paid[r] > 0 /\ released[r] > 0)

\* C6: no reservation is EXPIRED while its stock is still held: every flip
\* to EXPIRED comes with release_stock for every line.
C6_ExpiredImpliesReleased ==
    \A r \in Reservations :
        res[r].status = EXPIRED => released[r] >= Len(res[r].items)

\* C7: for every finite-stock item reserved_stock equals the quantities held
\* by ACTIVE reservations plus unpaid pending orders.
C7_ReservedEqualsHolds ==
    \A i \in Items : Finite(i) => menu[i].reserved_stock = Holds(i)

\* C8: however often and however overlapping the sweeps run, the lines of a
\* reservation are released exactly once, never more.
C8_ReleasedOnce ==
    \A r \in Reservations : released[r] <= Len(res[r].items)

\* C9: when a cleanup deletes an unpaid order, reserved_stock of each item
\* drops by exactly the quantity of the order's items and stock_quantity is
\* unchanged.
C9_DeleteReleasesExactly ==
    [][\A k \in DOMAIN orders :
          (k \notin DOMAIN orders' /\ orders[k].payment_status = "pending") =>
              \A i \in Items :
                  /\ menu'[i].reserved_stock =
                         menu[i].reserved_stock - QtyOf(orders[k].items, i)
                  /\ menu'[i].stock_quantity = menu[i].stock_quantity]_vars

\* the deletion criterion of the stale pending-cash-order sweep
C10_Stale(o) ==
    /\ o.payment_method = "cash"
    /\ o.payment_status = "pending"
    /\ o.status = "pending"
    /\ o.before_today

\* C10: a cleanup path deletes an order only if it is a pending, unpaid cash
\* order created before the start of the current day of its restaurant.
C10_DeleteOnlyStale ==
    [][\A k \in DOMAIN orders :
          k \notin DOMAIN orders' => C10_Stale(orders[k])]_vars

\* ------------------------------------------------ the staff desk's claims
\* staff member s's request ran in this step
Ran(s) == req[s].pc = "loaded" /\ req'[s].pc = "done"

\* C11: an Order's status is always one of pending, preparing and completed,
\* and it only changes along pending -> preparing or preparing -> completed,
\* whatever staff requests, payment verifications (accepted or refused) and
\* webhooks arrive.
C11_StatusFollowsTransitions ==
    [][/\ ord'.status \in {"none", "pending", "preparing", "completed"}
       /\ ord'.status # ord.status =>
              \/ ord.status = "none"
              \/ ord'.status \in ALLOWED_TRANSITIONS(ord.status)]_vars

\* C12: once an Order is completed, every later request on it is refused and
\* every field of the order stays as it was.
C12_CompletedImmutable ==
    [][ord.status = "completed" =>
          /\ ord' = ord
          /\ \A s \in Staff : Ran(s) => req'[s].result # "ok"]_vars

C14_AtMostOneCollection == audit <= 1

\* C15: collect_payment on an order that is not a cash order, or is already
\* paid, or is not pending, is rejected, changes nothing of the order and
\* writes no audit fact.
C15_IllegalCollectionRejected ==
    [][\A s \in Staff :
          /\ Ran(s)
          /\ req[s].op \in {"collect_payment", "cash"}
          /\ \/ req[s].order.payment_method # "cash"
             \/ req[s].order.payment_status = "success"
             \/ req[s].order.status # "pending"
          => /\ req'[s].result = "rejected"
             /\ ord' = ord
             /\ audit' = audit]_vars

\* a collection was asked for on an order already paid, and was rejected
\* after the one collection that succeeded
C15_Witness ==
    /\ audit = 1
    /\ ord.payment_method = "cash"
    /\ ord.payment_status = "success"
    /\ \E s1, s2 \in Staff :
          /\ req[s1].pc = "done" /\ req[s1].op = "collect_payment"
          /\ req[s1].result = "ok"
          /\ req[s2].pc = "done" /\ req[s2].op = "collect_payment"
          /\ req[s2].result = "rejected"

\* C16: the cash endpoint on a cash order that is pending and unpaid succeeds,
\* leaves it paid and preparing, and writes exactly one audit fact.
C16_CashEndpointCollects ==
    [][\A s \in Staff :
          /\ Ran(s)
          /\ req[s].op = "cash"
          /\ req[s].order = ord
          /\ ord.payment_method = "cash"
          /\ ord.payment_status = "pending"
          /\ ord.status = "pending"
          => /\ req'[s].result = "ok"
             /\ ord'.payment_status = "success"
             /\ ord'.status = "preparing"
             /\ audit' = audit + 1]_vars

C18_CartAllOrNothing ==
    [][\A c \in Creators :
          /\ tx[c].pc = "open" /\ tx'[c].pc \in {"open", "failed", "aborted"}
             => /\ menu' = menu
                /\ Len(made') = Len(made)
                /\ seq'.last_sequence = seq.last_sequence
          /\ tx[c].pc = "open" /\ tx'[c].pc = "failed"
             => /\ LineFails(menu, tx[c].taken, tx[c].cart[tx[c].line + 1])
                /\ tx'[c].item = tx[c].cart[tx[c].line + 1].menu_item_id]_vars

\* a cart failed on its second line, short of stock on an item of finite
\* stock after its first line had been handled
C18_Witness ==
    \E c \in Creators :
       /\ tx[c].pc = "failed"
       /\ tx[c].line = 1
       /\ tx[c].item \in Items
       /\ menu[tx[c].item].is_available
       /\ menu[tx[c].item].stock_quantity # NULL

\* ------------------------------------------ payment verification's claims
\* C19: when the gateway refuses the payment assertion the verification goes
\* no further: the request never enters the transaction, no Order is
\* created, confirm_sale touches no item, and the reservation and its cache
\* entry stay as they were, so that it can be retried or expire.
C19_RefusedChangesNothing ==
    [][\A v \in Verifiers :
          /\ verify'[v].pc = "txn" => verify'[v].sig = "signed"
          /\ verify'[v].pc = "refused" => verify'[v].sig = "forged"
          /\ verify[v].pc = "idle" /\ verify'[v].pc = "refused"
             => UNCHANGED <<menu, res, cache, paid, orders>>
          /\ verify[v].pc = "refused"
             => /\ verify'[v].pc \in {"refused", "idle"}
                /\ verify'[v].pc = "idle"
                   => UNCHANGED <<menu, res, cache, paid, orders>>]_vars

\* a forged signature was refused on an ACTIVE reservation that is still
\* ACTIVE, unpaid and holding its stock
C19_Witness ==
    \E v \in Verifiers :
       /\ verify[v].pc = "refused"
       /\ res[verify[v].rid].status = ACTIVE
       /\ cache[verify[v].rid]
       /\ paid[verify[v].rid] = 0
       /\ \E i \in Items : menu[i].reserved_stock > 0

\* C20: a reservation is PAID exactly when one Order made from it exists and
\* confirm_sale has run once for each of its lines.
C20_PaidIffOneOrder ==
    \A r \in Reservations : (res[r].status = PAID) <=> (paid[r] = 1)

\* C21: a verification call with a valid signature for a reservation that is
\* already PAID is answered with success and creates no further Order.
C21_RetryOfPaidSucceeds ==
    [][\A v \in Verifiers :
          /\ verify[v].pc = "idle"
          /\ verify'[v].pc # "idle"
          /\ verify'[v].sig = "signed"
          /\ res[verify'[v].rid].status = PAID
          => /\ verify'[v].pc = "already"
             /\ paid' = paid]_vars

\* ------------------------------------------------------ the money's claim
\* C22: every Order row has subtotal equal to the sum of its OrderItems'
\* subtotals, tax equal to subtotal times the restaurant's tax rate, and
\* total_amount = subtotal + tax, for orders made from a paid reservation
\* and for cash orders alike.
C22_TotalsConsistent ==
    bill.pc = "order" =>
        /\ bill.order.subtotal = SumSeq(bill.order.items)
        /\ bill.order.tax = Quantize(bill.rounding,
                                     bill.order.subtotal * bill.tax_rate, 10000)
        /\ bill.order.total_amount = bill.order.subtotal + bill.order.tax

\* -------------------------------------------------- the sweeps' liveness
\* C23: while the sweeps keep being run, every reservation whose expires_at
\* has passed without payment eventually has its lines' reserved stock
\* released: no reservation stays unpaid with its stock held forever.
C23_OverdueEventuallyReleased ==
    \A r \in Reservations :
        (res[r].overdue /\ res[r].status = ACTIVE)
            ~> \/ res[r].status = PAID
               \/ released[r] >= Len(res[r].items)
               \/ \A k \in DOMAIN res[r].items :
                     menu[res[r].items[k].menu_item_id].reserved_stock = 0

\* ---------------------------------------------- the order numbers' claims
\* C24: for seq >= 1 generate_order_number(seq) is the letter
\* chr('A' + ((seq - 1) // 99) % 26) followed by ((seq - 1) % 99) + 1, so that
\* 1 gives A1, 99 A99, 100 B1, 2574 Z99 and 2575 A1 again; seq < 1 is refused
\* with an error.
C24_OrderNumberFormat ==
    LET n == num.arg
        is(letter, number) == num.out = [letter |-> letter, number |-> number]
    IN  /\ num.out # NoNumber =>
             IF n < 1 THEN num.out = ValueError
             ELSE is(Letters[(((n - 1) \div 99) % 26) + 1],
                     ((n - 1) % 99) + 1)
        /\ num.out # NoNumber /\ n = 1 => is("A", 1)
        /\ n = 99 => is("A", 99)
        /\ n = 100 => is("B", 1)
        /\ n = 2574 => is("Z", 99)
        /\ n = 2575 => is("A", 1)

\* the 2574th order of the day had been numbered Z99 when a call with 0
\* was refused
C24_Witness ==
    /\ num.last_sequence = 2574
    /\ num.latest = [letter |-> "Z", number |-> 99]
    /\ num.arg = 0
    /\ num.out = ValueError

\* C29: no two orders of one restaurant created on the same day carry the
\* same order_number: no later order has the number of the day's first.
C29_OrderNumbersDistinct ==
    num.last_sequence >= 2 => num.latest # num.first

C26_CleanupOncePerDay == \A d \in Days : mw.runs[d] <= 1

\* ------------------------------------------------- payment status' claim
\* C27: an order's payment_status is only ever pending or success, and no
\* operation changes it once it is success.
C27_PaymentStatusOneWay ==
    [][/\ ord'.payment_status \in {"none", "pending", "success"}
       /\ (ord.payment_status = "success" =>
               ord'.payment_status = "success")]_vars

\* ------------------------------------------------- the stock calls' claims
\* C28: reserve_stock, confirm_sale and release_stock are safe to retry: the
\* same call made again after it took effect leaves stock_quantity and
\* reserved_stock as the first call left them.
C28_RetryLeavesRowAlone ==
    (led.pc = "twice" /\ led.once.ret \in {"True", "None"}) =>
        /\ led.twice.row.stock_quantity = led.once.row.stock_quantity
        /\ led.twice.row.reserved_stock = led.once.row.reserved_stock

\* C30: reserve_stock(qty) succeeds and changes nothing when stock_quantity
\* is null; on a finite stock it succeeds and adds exactly qty to
\* reserved_stock when stock_quantity - reserved_stock >= qty, and otherwise
\* fails and leaves the row as it was.
C30_ReserveStock ==
    (led.pc \in {"once", "twice"} /\ led.op = "reserve_stock") =>
        LET m == led.row
            qty == led.quantity
        IN  IF m.stock_quantity = NULL
            THEN led.once = [row |-> m, ret |-> "True"]
            ELSE IF m.stock_quantity - m.reserved_stock >= qty
            THEN /\ led.once.ret = "True"
                 /\ led.once.row.reserved_stock = m.reserved_stock + qty
                 /\ led.once.row.stock_quantity = m.stock_quantity
                 /\ led.once.row.is_available = m.is_available
            ELSE led.once = [row |-> m, ret |-> "False"]

\* a finite stock with exactly qty units free was reserved in full
C30_Witness ==
    /\ led.pc = "once"
    /\ led.op = "reserve_stock"
    /\ led.row.stock_quantity = MaxStock
    /\ led.row.reserved_stock = MaxStock - led.quantity
    /\ led.once.ret = "True"
    /\ led.once.row.reserved_stock = MaxStock

\* C31: confirm_sale(qty) on a finite stock takes qty from stock_quantity and
\* min(qty, reserved_stock) from reserved_stock; a result of zero or less is
\* stored as 0 and the item becomes unavailable.
C31_ConfirmSale ==
    (/\ led.pc \in {"once", "twice"}
     /\ led.op = "confirm_sale"
     /\ led.row.stock_quantity # NULL) =>
        LET m == led.row
            qty == led.quantity
            s == m.stock_quantity - qty
            taken == IF qty <= m.reserved_stock THEN qty ELSE m.reserved_stock
        IN  /\ led.once.ret = "True"
            /\ led.once.row.reserved_stock = m.reserved_stock - taken
            /\ IF s <= 0
               THEN /\ led.once.row.stock_quantity = 0
                    /\ ~led.once.row.is_available
               ELSE /\ led.once.row.stock_quantity = s
                    /\ led.once.row.is_available = m.is_available

\* C32: deleting an OrderItem of a paid order adds its quantity to
\* stock_quantity (an unlimited stock stays unlimited), makes the item
\* available and leaves reserved_stock alone; deleting an OrderItem of an
\* unpaid order takes min(quantity, reserved_stock) from reserved_stock and
\* leaves stock_quantity alone.
C32_DeleteRestoresStock ==
    (led.pc \in {"once", "twice"} /\ led.op \in SignalCalls) =>
        LET m == led.row
            qty == led.quantity
            after == led.once.row
            taken == IF qty <= m.reserved_stock THEN qty ELSE m.reserved_stock
        IN  IF led.op = "restore_stock_on_delete_success"
            THEN /\ after.stock_quantity =
                        IF m.stock_quantity = NULL THEN NULL
                        ELSE m.stock_quantity + qty
                 /\ after.reserved_stock = m.reserved_stock
                 /\ after.is_available
            ELSE /\ after.stock_quantity = m.stock_quantity
                 /\ after.reserved_stock = m.reserved_stock - taken

\* ------------------------------------------------ the sequence row's lock
\* C33: the lock on the sequence row is held for the increment only: while
\* one order creation is at its stock checks and inserts, no other caller's
\* get_next_sequence has to wait for the row.
C33_LockOnlyForIncrement ==
    \A c \in Creators :
        tx[c].pc = "open" => \A d \in Creators \ {c} : ~SeqBlocked(d)

\* C34: the sequence counter follows the restaurant's own calendar day: the
\* sequence an order gets is the number of orders the restaurant has created
\* so far in its local day, so that it restarts at 1 at local midnight.
C34_SequencePerLocalDay ==
    cal.daily_sequence # 0 =>
        cal.daily_sequence = cal.created[cal.local_day]

\* ------------------------------------------------------ unlimited stock
\* C35: an item with unlimited stock (stock_quantity null) stays unlimited
\* under reserve_stock, confirm_sale, release_stock and restock, the restock
\* of a deleted paid order's item included.
C35_UnlimitedStaysUnlimited ==
    led.row.stock_quantity = NULL =>
        /\ led.pc \in {"once", "twice"} =>
               led.once.row.stock_quantity = NULL
        /\ led.pc = "twice" => led.twice.row.stock_quantity = NULL

\* ------------------------------------------------------------ no oversell
\* C36: confirm_sale is never applied with a quantity larger than the
\* item's stock_quantity: no payment verification ends with a confirm_sale
\* that the stock could not cover, however reservations, expiries and
\* verifications interleave.
C36_NoOversell == \A v \in Verifiers : verify[v].pc # "failed"

====
